---- MODULE Spec2Model ----
(***************************************************************************)
(* Re-Pair priority queues: the high-frequency queue hf_queue = <H,B>      *)
(* (internal/hf_queue.hpp) and the low-frequency queue lf_queue = <F,H>    *)
(* (internal/lf_queue.hpp).                                                *)
(*                                                                         *)
(* Assertions are modelled as enabled: a failed assert aborts the program, *)
(* which is recorded in `failed`; the other variables keep the values they *)
(* had at the moment of the abort.  Indices are 0-based as in the code, so *)
(* slot i of the backing list is V[i+1].                                   *)
(***************************************************************************)
EXTENDS Integers, Sequences, FiniteSets, TLC

\* ---- bounds -------------------------------------------------------------
NumPairs  == 2   \* number of distinct pairs handed to the queues
MaxSize   == 2   \* largest max_size handed to the constructor
MaxFreq   == 3   \* largest F_ab handed to insert
MaxFloor  == 2   \* largest min_freq handed to the constructor
MaxCalls  == 2   \* calls made on the lf_queue

\* pairs of adjacent symbols of the text 0 1 2 ...
Pairs    == {<<i, i + 1>> : i \in 0..(NumPairs - 1)}
NullSym  == -1                       \* ~ctype(0)
NullPair == <<NullSym, NullSym>>

\* ll_el: list element <ab, P_ab, L_ab, F_ab>
\* the opaque handles <<P_ab, L_ab>> the occurrence-list manager supplies
Handles == {<<0, 1>>, <<1, 0>>}

Els == {[ab |-> ab, P_ab |-> h[1], L_ab |-> h[2], F_ab |-> f] :
          ab \in Pairs, h \in Handles, f \in 1..MaxFreq}
NullEl == [ab |-> NullPair, P_ab |-> NullSym, L_ab |-> NullSym, F_ab |-> NullSym]

VARIABLES
  max_size,   \* hf_queue::max_size
  min_freq,   \* hf_queue::min_freq
  V,          \* hf_queue::B, the slots of the backing list (NullEl = dead slot)
  H,          \* hf_queue::H, pair -> slot index
  failed,     \* an assertion has failed (program aborted)
  lastOp,     \* the last call: [op, arg, ret, compacted]; arg is a pair, for insert the element
  lf_max_size,  \* lf_queue::max_size
  lf_max_freq,  \* lf_queue::max_freq
  lf_F,         \* lf_queue::F, vector of [prev, next, list]
  lf_H,         \* lf_queue::H, pair -> <<frequency, offset>>
  lf_failed,    \* an assertion of the lf_queue has failed
  lf_log        \* the calls made on the lf_queue: [op, arg, ret]

hf_state == <<max_size, min_freq, V, H, failed, lastOp>>
lf_state == <<lf_max_size, lf_max_freq, lf_F, lf_H, lf_failed, lf_log>>
hf_vars  == <<hf_state, lf_state>>

\* ---- backing list ll_vec (B) --------------------------------------------
Live(W) == {i \in 0..(Len(W)-1) : W[i+1] # NullEl}

B_size(W) == Cardinality(Live(W))

B_capacity(W) == Len(W)

B_at(W, i) == W[i+1]

B_insert(W, el) == Append(W, el)

B_remove(W, i) == [W EXCEPT ![i+1] = NullEl]

B_compact(W) == SelectSeq(W, LAMBDA e : e # NullEl)

\* possible results of B.max_pair() / B.min_pair(); on an empty list the
\* result is unspecified
B_max_pair(W) ==
  IF Live(W) = {} THEN Pairs \cup {NullPair}
  ELSE {W[i+1].ab : i \in {j \in Live(W) : \A k \in Live(W) : W[j+1].F_ab >= W[k+1].F_ab}}

B_min_pair(W) ==
  IF Live(W) = {} THEN Pairs \cup {NullPair}
  ELSE {W[i+1].ab : i \in {j \in Live(W) : \A k \in Live(W) : W[j+1].F_ab <= W[k+1].F_ab}}

\* ---- hf_queue -------------------------------------------------------------
Restrict(G, D) == [ab \in D |-> G[ab]]

Call(op, arg, ret, c) == [op |-> op, arg |-> arg, ret |-> ret, compacted |-> c]

\* constructors: hf_queue() and hf_queue(max_size, min_freq), assert(min_freq>1)
hf_new ==
  /\ \/ max_size = 0 /\ min_freq = 0
     \/ max_size \in 0..MaxSize /\ min_freq \in 2..MaxFloor
  /\ V = <<>>
  /\ H = <<>>
  /\ failed = FALSE
  /\ lastOp = Call("new", NullPair, <<>>, FALSE)

\* constructors: lf_queue() and lf_queue(max_size, max_freq), assert(max_freq>0)
lf_new ==
  /\ \/ lf_max_size = 0 /\ lf_max_freq = 0
     \/ lf_max_size \in 0..MaxSize /\ lf_max_freq = MaxFreq + 1
  /\ lf_F = <<>>
  /\ lf_H = <<>>
  /\ lf_failed = FALSE
  /\ lf_log = <<>>

\* a program that uses an hf_queue next to a default-constructed lf_queue
Init ==
  /\ hf_new
  /\ lf_new
  /\ lf_max_size = 0 /\ lf_max_freq = 0

\* bool contains(ab): value returned once assert(max_size>0) has passed
contains(ab) == ab \in DOMAIN H

\* triple <P_ab, L_ab, F_ab> returned by operator[] for a contained pair
triple(ab) == LET e == B_at(V, H[ab]) IN <<e.P_ab, e.L_ab, e.F_ab>>

compact_ll_short(W, G) ==
  LET W2   == B_compact(W)
      idx  == 0..(B_size(W2) - 2)
      keys == {B_at(W2, i).ab : i \in idx}
  IN [V |-> W2,
      H |-> [ab \in DOMAIN G \cup keys |->
               IF ab \in keys
               THEN CHOOSE i \in idx : B_at(W2, i).ab = ab
               ELSE G[ab]]]

compact_ll_stale(W, G) == [V |-> B_compact(W), H |-> G]

\* compact_ll(): B.compact(), then H[B[i].ab] = i for i = 0..B.size()-1
compact_ll(W, G) ==
  LET W2   == B_compact(W)
      idx  == 0..(B_size(W2) - 1)
      keys == {B_at(W2, i).ab : i \in idx}
  IN [V |-> W2,
      H |-> [ab \in DOMAIN G \cup keys |->
               IF ab \in keys
               THEN CHOOSE i \in idx : /\ B_at(W2, i).ab = ab
                                       /\ \A j \in idx : B_at(W2, j).ab = ab => j <= i
               ELSE G[ab]]]

remove_body_noerase(W, G, ab) ==
  LET W1 == B_remove(W, G[ab])
  IN IF B_size(W1) < B_capacity(W1) \div 2
     THEN [compacted |-> TRUE] @@ compact_ll(W1, G)
     ELSE [compacted |-> FALSE, V |-> W1, H |-> G]

\* body of remove(ab) after its assertions
remove_body(W, G, ab) ==
  LET W1 == B_remove(W, G[ab])
      G1 == Restrict(G, DOMAIN G \ {ab})
  IN IF B_size(W1) < B_capacity(W1) \div 2
     THEN [compacted |-> TRUE] @@ compact_ll(W1, G1)
     ELSE [compacted |-> FALSE, V |-> W1, H |-> G1]

decrease_body_L(W, G, ab) ==
  LET W1 == [W EXCEPT ![G[ab] + 1].F_ab = @ - 1, ![G[ab] + 1].L_ab = @ - 1]
  IN IF B_at(W1, G[ab]).F_ab < min_freq
     THEN remove_body(W1, G, ab)
     ELSE [compacted |-> FALSE, V |-> W1, H |-> G]

decrease_body_noremove(W, G, ab) ==
  [compacted |-> FALSE, V |-> [W EXCEPT ![G[ab] + 1].F_ab = @ - 1], H |-> G]

decrease_body_le(W, G, ab) ==
  LET W1 == [W EXCEPT ![G[ab] + 1].F_ab = @ - 1]
  IN IF B_at(W1, G[ab]).F_ab <= min_freq
     THEN remove_body(W1, G, ab)
     ELSE [compacted |-> FALSE, V |-> W1, H |-> G]

\* body of decrease(ab) after its assertions
decrease_body(W, G, ab) ==
  LET W1 == [W EXCEPT ![G[ab] + 1].F_ab = @ - 1]
  IN IF B_at(W1, G[ab]).F_ab < min_freq
     THEN remove_body(W1, G, ab)
     ELSE [compacted |-> FALSE, V |-> W1, H |-> G]

\* value returned by size() once assert(max_size>0) has passed
size_ret_capacity(W) == B_capacity(W)

size_ret(W) == B_size(W)

\* body of insert(el) up to the assertions that follow the insertion
insert_body(W, G, el) ==
  LET idx == B_capacity(W)
  IN [V |-> B_insert(W, el),
      H |-> IF el.ab \in DOMAIN G THEN G
            ELSE [ab \in DOMAIN G \cup {el.ab} |-> IF ab = el.ab THEN idx ELSE G[ab]],
      idx |-> idx]

Abort(op, arg) ==
  /\ failed' = TRUE
  /\ lastOp' = Call(op, arg, <<>>, FALSE)
  /\ UNCHANGED <<max_size, min_freq, V, H, lf_state>>

Return(op, arg, ret) ==
  /\ lastOp' = Call(op, arg, ret, FALSE)
  /\ UNCHANGED <<max_size, min_freq, V, H, failed, lf_state>>

lookup(ab) ==
  /\ ~failed
  /\ IF max_size > 0 /\ contains(ab)
     THEN Return("lookup", ab, triple(ab))
     ELSE Abort("lookup", ab)

\* cpair p = B.min_pair() / B.max_pair(): the values p can take
min_p(W) == B_min_pair(W)

max_p_min(W) == B_min_pair(W)

max_p(W) == B_max_pair(W)

min ==
  /\ ~failed
  /\ IF max_size > 0
     THEN \E p \in min_p(V) :
            IF contains(p) THEN Return("min", NullPair, p) ELSE Abort("min", NullPair)
     ELSE Abort("min", NullPair)

max ==
  /\ ~failed
  /\ IF max_size > 0
     THEN \E p \in max_p(V) :
            IF contains(p) THEN Return("max", NullPair, p) ELSE Abort("max", NullPair)
     ELSE Abort("max", NullPair)

remove(ab) ==
  /\ ~failed
  /\ IF max_size > 0 /\ contains(ab)
     THEN LET r == remove_body(V, H, ab)
          IN /\ V' = r.V
             /\ H' = r.H
             /\ lastOp' = Call("remove", ab, <<>>, r.compacted)
             /\ UNCHANGED <<max_size, min_freq, failed, lf_state>>
     ELSE Abort("remove", ab)

\* assert(max_size>0) at the head of contains
contains_assert_none == TRUE

contains_assert == max_size > 0

contains_call(ab) ==
  /\ ~failed
  /\ IF contains_assert
     THEN Return("contains", ab, <<contains(ab)>>)
     ELSE Abort("contains", ab)

size ==
  /\ ~failed
  /\ IF max_size > 0
     THEN Return("size", NullPair, <<size_ret(V)>>)
     ELSE Abort("size", NullPair)

decrease(ab) ==
  /\ ~failed
  /\ IF max_size > 0 /\ contains(ab) /\ B_at(V, H[ab]).F_ab > 0
     THEN LET r == decrease_body(V, H, ab)
          IN /\ V' = r.V
             /\ H' = r.H
             /\ lastOp' = Call("decrease", ab, <<>>, r.compacted)
             /\ UNCHANGED <<max_size, min_freq, failed, lf_state>>
     ELSE Abort("decrease", ab)

\* assertions of insert(el) that precede the insertion
insert_pre_nofloor(el) == max_size > 0 /\ ~contains(el.ab)

insert_pre(el) == max_size > 0 /\ ~contains(el.ab) /\ el.F_ab >= min_freq

\* assertions of insert(el) that follow the insertion; r = insert_body(V, H, el)
insert_post_nocap(r, el) ==
  /\ r.H[el.ab] = r.idx
  /\ B_at(r.V, r.H[el.ab]).P_ab = el.P_ab
  /\ B_at(r.V, r.H[el.ab]).L_ab = el.L_ab
  /\ B_at(r.V, r.H[el.ab]).F_ab = el.F_ab

insert_post(r, el) ==
  /\ r.H[el.ab] = r.idx
  /\ B_at(r.V, r.H[el.ab]).P_ab = el.P_ab
  /\ B_at(r.V, r.H[el.ab]).L_ab = el.L_ab
  /\ B_at(r.V, r.H[el.ab]).F_ab = el.F_ab
  /\ size_ret(r.V) <= max_size

insert(el) ==
  /\ ~failed
  /\ IF insert_pre(el)
     THEN LET r == insert_body(V, H, el)
          IN /\ V' = r.V
             /\ H' = r.H
             /\ failed' = ~insert_post(r, el)
             /\ lastOp' = Call("insert", el, <<>>, FALSE)
             /\ UNCHANGED <<max_size, min_freq, lf_state>>
     ELSE Abort("insert", el)

Next ==
  \/ \E ab \in Pairs : lookup(ab)
  \/ min
  \/ max
  \/ \E ab \in Pairs : remove(ab)
  \/ \E ab \in Pairs : contains_call(ab)
  \/ size
  \/ \E ab \in Pairs : decrease(ab)
  \/ \E el \in Els : insert(el)

Spec == Init /\ [][Next]_hf_vars

\* ---- lf_queue -------------------------------------------------------------
\* The bodies of the lf_queue operations hold nothing but their assertions.
\* A function declared with a result flows off its end without a return
\* statement, so the value its caller sees is any value of the result type.

\* a program that uses an lf_queue next to a default-constructed hf_queue
lf_Init ==
  /\ lf_new
  /\ hf_new
  /\ max_size = 0 /\ min_freq = 0

lf_Return(op, arg, ret) ==
  /\ lf_log' = Append(lf_log, [op |-> op, arg |-> arg, ret |-> ret])
  /\ UNCHANGED <<lf_max_size, lf_max_freq, lf_F, lf_H, lf_failed, hf_state>>

lf_Abort(op, arg) ==
  /\ lf_log' = Append(lf_log, [op |-> op, arg |-> arg, ret |-> <<>>])
  /\ lf_failed' = TRUE
  /\ UNCHANGED <<lf_max_size, lf_max_freq, lf_F, lf_H, hf_state>>

lf_ready == ~lf_failed /\ Len(lf_log) < MaxCalls

\* values contains(ab) can hand to its caller once assert(max_size>0) passed
lf_contains(ab) == BOOLEAN

\* values operator[], min/max/head and size can hand to their callers
lf_triples == {<<e.P_ab, e.L_ab, e.F_ab>> : e \in Els}
lf_pairs   == Pairs \cup {NullPair}
lf_sizes   == 0..MaxSize

lf_lookup(ab) ==
  /\ lf_ready
  /\ IF lf_max_size > 0
     THEN \E c \in lf_contains(ab) :
            IF c THEN \E t \in lf_triples : lf_Return("lookup", ab, t)
                 ELSE lf_Abort("lookup", ab)
     ELSE lf_Abort("lookup", ab)

lf_min ==
  /\ lf_ready
  /\ IF lf_max_size > 0
     THEN \E p \in lf_pairs : lf_Return("min", NullPair, p)
     ELSE lf_Abort("min", NullPair)

lf_max ==
  /\ lf_ready
  /\ IF lf_max_size > 0
     THEN \E p \in lf_pairs : lf_Return("max", NullPair, p)
     ELSE lf_Abort("max", NullPair)

lf_head ==
  /\ lf_ready
  /\ IF lf_max_size > 0
     THEN \E p \in lf_pairs : lf_Return("head", NullPair, p)
     ELSE lf_Abort("head", NullPair)

lf_remove(ab) ==
  /\ lf_ready
  /\ IF lf_max_size > 0
     THEN \E c \in lf_contains(ab) :
            IF c THEN lf_Return("remove", ab, <<>>) ELSE lf_Abort("remove", ab)
     ELSE lf_Abort("remove", ab)

lf_contains_call(ab) ==
  /\ lf_ready
  /\ IF lf_max_size > 0
     THEN \E c \in lf_contains(ab) : lf_Return("contains", ab, <<c>>)
     ELSE lf_Abort("contains", ab)

lf_size ==
  /\ lf_ready
  /\ IF lf_max_size > 0
     THEN \E n \in lf_sizes : lf_Return("size", NullPair, <<n>>)
     ELSE lf_Abort("size", NullPair)

lf_decrease(ab) ==
  /\ lf_ready
  /\ IF lf_max_size > 0
     THEN \E c \in lf_contains(ab) :
            IF c THEN lf_Return("decrease", ab, <<>>) ELSE lf_Abort("decrease", ab)
     ELSE lf_Abort("decrease", ab)

lf_insert(el) ==
  /\ lf_ready
  /\ IF lf_max_size > 0
     THEN lf_Return("insert", el, <<>>)
     ELSE lf_Abort("insert", el)

lf_Next ==
  \/ \E ab \in Pairs : lf_lookup(ab)
  \/ lf_min
  \/ lf_max
  \/ lf_head
  \/ \E ab \in Pairs : lf_remove(ab)
  \/ \E ab \in Pairs : lf_contains_call(ab)
  \/ lf_size
  \/ \E ab \in Pairs : lf_decrease(ab)
  \/ \E el \in Els : lf_insert(el)

lf_Spec == lf_Init /\ [][lf_Next]_hf_vars

\* ---- queues with max_size = 0 ---------------------------------------------
\* a program holding an hf_queue and an lf_queue that were both built with
\* max_size = 0 (default constructors, or the other constructors with
\* capacity 0); a failed assertion of either queue ends the program
dc_Init ==
  /\ hf_new
  /\ lf_new
  /\ max_size = 0
  /\ lf_max_size = 0

dc_Next ==
  \/ ~lf_failed /\ Next
  \/ ~failed /\ lf_Next

dc_Spec == dc_Init /\ [][dc_Next]_hf_vars

TypeOK ==
  /\ max_size \in 0..MaxSize
  /\ failed \in BOOLEAN
  /\ \A i \in 1..Len(V) : V[i] = NullEl \/ V[i] \in Els

\* ---- properties of hf_queue ----------------------------------------------
F_of(W, G, ab) == B_at(W, G[ab]).F_ab

\* C1: bijection between H and the live records of B: a pair is contained
\* iff H maps it to a slot of B holding a live record of that pair, and every
\* live record of B is the one its pair's H entry points to.
C1_Bijection ==
  /\ \A p \in Pairs :
       contains(p) <=> /\ p \in DOMAIN H
                       /\ H[p] \in Live(V)
                       /\ B_at(V, H[p]).ab = p
  /\ \A i \in Live(V) : B_at(V, i).ab \in DOMAIN H /\ H[B_at(V, i).ab] = i
  /\ DOMAIN H \subseteq Pairs

\* a remove has compacted the list and pairs survive
C1_Witness ==
  /\ lastOp.op = "remove"
  /\ lastOp.compacted
  /\ DOMAIN H # {}

C3_Decrease ==
  [][(lastOp'.op = "decrease" /\ lastOp'.arg \in DOMAIN H) =>
          LET p == lastOp'.arg
              f == F_of(V, H, p)
          IN /\ ~failed'
             /\ \/ /\ f - 1 >= min_freq
                   /\ p \in DOMAIN H'
                   /\ H'[p] \in Live(V')
                   /\ F_of(V', H', p) = f - 1
                \/ /\ f - 1 < min_freq
                   /\ p \notin DOMAIN H']_hf_vars

\* a decrease has left its pair contained exactly at the floor
C3_Witness ==
  /\ lastOp.op = "decrease"
  /\ ~failed
  /\ lastOp.arg \in DOMAIN H
  /\ F_of(V, H, lastOp.arg) = min_freq

\* C4: when a remove (direct or through decrease) compacts the list, every
\* other contained pair stays contained with the same triple.
C4_Compaction ==
  [][lastOp'.compacted =>
       \A q \in DOMAIN H \ {lastOp'.arg} :
          /\ q \in DOMAIN H'
          /\ H'[q] \in Live(V')
          /\ B_at(V', H'[q]) = B_at(V, H[q])]_hf_vars

\* a decrease crossing the floor has compacted the list and a pair survives
C4_Witness ==
  /\ lastOp.op = "decrease"
  /\ lastOp.compacted
  /\ DOMAIN H # {}
C6_InsertPre ==
  [][( /\ lastOp'.op = "insert"
       /\ lastOp'.arg.ab \in DOMAIN H \/ lastOp'.arg.F_ab < min_freq ) =>
          /\ failed'
          /\ V' = V
          /\ H' = H]_hf_vars

\* an insert of an already contained pair has failed on a usable queue that
\* is within its capacity
C6_Witness ==
  /\ failed
  /\ lastOp.op = "insert"
  /\ max_size > 0
  /\ lastOp.arg.ab \in DOMAIN H
  /\ B_size(V) <= max_size

\* C7 (as stated): contains never fails, in any state of any queue object.
C7_Original == ~(failed /\ lastOp.op = "contains")

\* C7 (amended): contains fails exactly on a queue whose max_size is 0
\* (default constructor or capacity 0); on a queue with max_size > 0 it
\* returns true or false in every state.
C7_Contains ==
  lastOp.op = "contains" =>
     /\ failed <=> max_size = 0
     /\ ~failed => lastOp.ret = <<lastOp.arg \in DOMAIN H>>

\* contains has returned true
C7_Witness ==
  /\ lastOp.op = "contains"
  /\ ~failed
  /\ lastOp.ret = <<TRUE>>

\* C8: max() and min() called on a queue holding no pair end in a failed
\* assertion.
C8_EmptyMaxMin ==
  (lastOp.op \in {"max", "min"} /\ B_size(V) = 0) => failed

\* max() has failed on a queue with positive capacity that was emptied
C8_Witness ==
  /\ lastOp.op = "max"
  /\ failed
  /\ max_size > 0
  /\ Len(V) > 0
  /\ B_size(V) = 0
\* ---- properties of lf_queue ----------------------------------------------
\* record stored for a pair: F[frequency].list[offset]
lf_stored(FF, HH, ab) == FF[HH[ab][1] + 1].list[HH[ab][2] + 1]

\* frequencies whose bucket holds at least one record
lf_nonempty(FF) == {f \in 0..(Len(FF) - 1) : FF[f + 1].list # <<>>}

\* C9: on an lf_queue holding just the pair p inserted with frequency f > 1,
\* a decrease(p) that returns leaves p stored with frequency f - 1.
C9_DecreaseRoundTrip ==
  [][\A p \in Pairs :
       ( /\ lf_decrease(p)
         /\ ~lf_failed'
         /\ Len(lf_log) = 1
         /\ lf_log[1].op = "insert"
         /\ lf_log[1].arg.ab = p
         /\ lf_log[1].arg.F_ab > 1
         /\ lf_log[1].arg.F_ab < lf_max_freq ) =>
            /\ p \in DOMAIN lf_H'
            /\ lf_stored(lf_F', lf_H', p).ab = p
            /\ lf_stored(lf_F', lf_H', p).F_ab = lf_log[1].arg.F_ab - 1]_hf_vars

\* C10: after inserts of distinct pairs only, a bucket is non-empty iff a
\* pair was inserted at its frequency, and the next link of every non-empty
\* bucket leads to the nearest non-empty bucket above it (null at the top).
C10_Chain ==
  ( /\ ~lf_failed
    /\ \A i \in 1..Len(lf_log) :
          /\ lf_log[i].op = "insert"
          /\ lf_log[i].arg.F_ab \in 1..(lf_max_freq - 1)
          /\ \A j \in 1..Len(lf_log) : lf_log[j].arg.ab = lf_log[i].arg.ab => j = i ) =>
     /\ lf_nonempty(lf_F) = {lf_log[i].arg.F_ab : i \in 1..Len(lf_log)}
     /\ \A f \in lf_nonempty(lf_F) :
          LET above == {g \in lf_nonempty(lf_F) : g > f}
          IN IF above = {} THEN lf_F[f + 1].next = NullSym
             ELSE /\ lf_F[f + 1].next \in above
                  /\ \A g \in above : lf_F[f + 1].next <= g

\* C11: on an lf_queue holding just one inserted pair, max() and min() that
\* return hand back that pair (the only pair of the highest and of the lowest
\* non-empty bucket).
C11_LFMaxMin ==
  ( /\ Len(lf_log) = 2
    /\ ~lf_failed
    /\ lf_log[1].op = "insert"
    /\ lf_log[1].arg.F_ab \in 1..(lf_max_freq - 1)
    /\ lf_log[2].op \in {"max", "min"} ) =>
       lf_log[2].ret = lf_log[1].arg.ab

\* ---- further properties of hf_queue ---------------------------------------
\* C12: in a queue built with min_freq > 1 every stored record has
\* F_ab >= min_freq >= 2, so a decrease of a contained pair never fails its
\* assertion F_ab > 0.
C12_Floor ==
  /\ min_freq > 1 => \A i \in Live(V) : B_at(V, i).F_ab >= min_freq /\ B_at(V, i).F_ab >= 2
  /\ (lastOp.op = "decrease" /\ failed) => lastOp.arg \notin DOMAIN H

\* a decrease has crossed the floor and removed its pair while another pair
\* stays in the queue
C12_Witness ==
  /\ lastOp.op = "decrease"
  /\ ~failed
  /\ min_freq > 1
  /\ lastOp.arg \notin DOMAIN H
  /\ DOMAIN H # {}

\* C13: after every remove and every floor-crossing decrease that returns,
\* the live records fill at least half of the backing list's capacity
\* (the list was compacted if 2 * B.size() < B.capacity()).
C13_CompactionPolicy ==
  ( /\ lastOp.op \in {"remove", "decrease"}
    /\ ~failed
    /\ lastOp.arg \notin DOMAIN H ) =>
       2 * B_size(V) >= B_capacity(V)

\* C14: size() equals the number of contained pairs (entries of H = live
\* records of B); an insert that returns raises it by 1, a remove and a
\* floor-crossing decrease lower it by 1, and a decrease that stays at or
\* above the floor leaves it unchanged.
C14_Size ==
  [][/\ B_size(V') = Cardinality(DOMAIN H')
     /\ (lastOp'.op = "size" /\ ~failed') =>
           lastOp'.ret = <<Cardinality(DOMAIN H)>>
     /\ (lastOp'.op = "insert" /\ ~failed') =>
           size_ret(V') = size_ret(V) + 1
     /\ (lastOp'.op = "remove" /\ ~failed') =>
           size_ret(V') = size_ret(V) - 1
     /\ (lastOp'.op = "decrease" /\ ~failed') =>
           size_ret(V') = IF F_of(V, H, lastOp'.arg) - 1 >= min_freq
                          THEN size_ret(V)
                          ELSE size_ret(V) - 1]_hf_vars

\* size() has returned the number of contained pairs of a list that also
\* holds dead slots
C14_Witness ==
  /\ lastOp.op = "size"
  /\ ~failed
  /\ lastOp.ret[1] >= 1
  /\ B_capacity(V) > lastOp.ret[1]

\* C15: the handles P_ab and L_ab a pair was inserted with are what the queue
\* stores for it, no step changes them while the pair stays contained, and
\* operator[] returns them together with the current F_ab.
C15_Handles ==
  [][/\ \A p \in DOMAIN H \cap DOMAIN H' :
          /\ H'[p] \in Live(V')
          /\ B_at(V', H'[p]).P_ab = B_at(V, H[p]).P_ab
          /\ B_at(V', H'[p]).L_ab = B_at(V, H[p]).L_ab
     /\ (lastOp'.op = "insert" /\ V' # V) =>
          /\ lastOp'.arg.ab \in DOMAIN H'
          /\ B_at(V', H'[lastOp'.arg.ab]) = lastOp'.arg
     /\ (lastOp'.op = "lookup" /\ ~failed') =>
          lastOp'.ret = << B_at(V, H[lastOp'.arg]).P_ab,
                           B_at(V, H[lastOp'.arg]).L_ab,
                           B_at(V, H[lastOp'.arg]).F_ab >>]_hf_vars

\* operator[] has returned the handles <<1, 0>> of a pair stored at the floor,
\* from a list that holds dead slots
C15_Witness ==
  /\ lastOp.op = "lookup"
  /\ ~failed
  /\ lastOp.ret = <<1, 0, min_freq>>
  /\ MaxFreq > min_freq
  /\ B_capacity(V) > B_size(V)

\* C16: insert(p), decrease(p) and remove(p) leave every pair q # p as it
\* was: contained iff it was contained, with the same triple.
C16_Frame ==
  [][lastOp'.op \in {"insert", "decrease", "remove"} =>
       LET p == IF lastOp'.op = "insert" THEN lastOp'.arg.ab ELSE lastOp'.arg
       IN \A q \in Pairs \ {p} :
             /\ q \in DOMAIN H <=> q \in DOMAIN H'
             /\ q \in DOMAIN H =>
                   /\ H'[q] \in Live(V')
                   /\ B_at(V', H'[q]) = B_at(V, H[q])]_hf_vars

\* an insert has returned in a queue that already held another pair
C16_Witness ==
  /\ lastOp.op = "insert"
  /\ ~failed
  /\ Cardinality(DOMAIN H) >= 2

\* decreases a pair can still take before it is absent: F_ab - min_freq + 1
\* while contained, 0 once absent
Remaining(W, G, p) == IF p \in DOMAIN G THEN F_of(W, G, p) - min_freq + 1 ELSE 0

\* C17: a pair becomes present only by its insert (with the frequency given),
\* changes frequency only by its own decrease and never upwards, and becomes
\* absent only by its remove or its decrease; each decrease of a contained
\* pair lowers F_ab - min_freq + 1 by exactly one and the pair is absent
\* exactly when that number reaches 0, so a pair inserted with frequency f is
\* absent after exactly f - min_freq + 1 decreases.
C17_Lifecycle ==
  [][\A p \in Pairs :
       /\ (p \notin DOMAIN H /\ p \in DOMAIN H') =>
             /\ lastOp'.op = "insert"
             /\ lastOp'.arg.ab = p
             /\ Remaining(V', H', p) = lastOp'.arg.F_ab - min_freq + 1
             /\ Remaining(V', H', p) >= 1
       /\ (p \in DOMAIN H /\ p \in DOMAIN H') =>
             /\ F_of(V', H', p) <= F_of(V, H, p)
             /\ F_of(V', H', p) # F_of(V, H, p) =>
                   (lastOp'.op = "decrease" /\ lastOp'.arg = p)
       /\ (p \in DOMAIN H /\ p \notin DOMAIN H') =>
             /\ lastOp'.op \in {"remove", "decrease"}
             /\ lastOp'.arg = p
       /\ (lastOp'.op = "decrease" /\ lastOp'.arg = p /\ p \in DOMAIN H) =>
             /\ ~failed'
             /\ Remaining(V', H', p) = Remaining(V, H, p) - 1]_hf_vars

\* the last pair of the queue has become absent by a decrease that crossed
\* the floor
C17_Witness ==
  /\ lastOp.op = "decrease"
  /\ ~failed
  /\ DOMAIN H = {}
  /\ B_capacity(V) > 0

\* C18: on a queue with max_size = 0 (default constructor) every call of a
\* public operation, of hf_queue and of lf_queue alike, ends in a failed
\* assertion and the queue's structures are left empty.
C18_Unusable ==
  /\ max_size = 0 =>
        /\ V = <<>>
        /\ H = <<>>
        /\ lastOp.op # "new" => failed
  /\ lf_max_size = 0 =>
        /\ lf_F = <<>>
        /\ lf_H = <<>>
        /\ lf_log # <<>> => (lf_failed /\ Len(lf_log) = 1)

\* insert has failed on a default-constructed hf_queue
C18_Witness ==
  /\ max_size = 0
  /\ min_freq = 0
  /\ failed
  /\ lastOp.op = "insert"
====
